---- MODULE Spec2Model ----
(***************************************************************************)
(* State-machine model of the URL shortener service layer                  *)
(* (apps/shortener/services.py, apps/shortener/models.py).                 *)
(*                                                                         *)
(* The table shortened_urls is a set of rows, the table url_clicks a count *)
(* of rows per parent row.  Every request is a process that walks through  *)
(* the database round trips of the service method it runs; other requests, *)
(* the administrator and the clock may act between two round trips.  The   *)
(* views (apps/shortener/views.py) add the HTTP status of the answer and,  *)
(* for a redirect, the click-detail row that follows the resolution.       *)
(***************************************************************************)
EXTENDS Integers, Sequences, FiniteSets, TLC

VARIABLES
    db,          \* table shortened_urls: a set of rows
    url_clicks,  \* table url_clicks: number of rows per shortened_url id
    last_id,     \* the last value the id sequence of shortened_urls handed out
    now,         \* timezone.now()
    proc,        \* per request in flight: position, arguments, local instance
    response     \* what the service call that ended in the last step returned or raised

vars == <<db, url_clicks, last_id, now, proc, response>>

----------------------------------------------------------------------------
(* Bounds of the model *)

MaxTime == 1        \* the clock runs 0..MaxTime
MaxClicks == 2      \* tracked resolutions are started while click_count and the click rows are below it
MaxRows == 2        \* rows are inserted while the id sequence is below it
MaxClickRows == 1   \* direct track_click calls start while the parent has fewer url_clicks rows

Procs == {"p1", "p2"}

----------------------------------------------------------------------------
(* Values *)

\* Python None / SQL NULL of a DateTimeField
NULL == -1

NoneStr == "None"

Times == 0 .. MaxTime

\* the URL strings clients submit: "bad" fails validators.url, "a" passes it
URLs == {"bad", "a"}

\* each client sends its own title and description, from its own address
Meta(p) ==
    IF p = "p1"
    THEN [title |-> NoneStr, description |-> NoneStr, created_by_ip |-> "10.0.0.1"]
    ELSE [title |-> "t", description |-> "d", created_by_ip |-> "10.0.0.2"]

\* the instance variable of a request that holds no model instance
NoRow == [id |-> 0]

\* the result of a call that returned no record
NoRet == [short_code |-> <<>>]

----------------------------------------------------------------------------
(* Code generator: services.py _generate_short_code *)

validators_url(u) == u # "bad"

\* int(sha256(url).hexdigest()[:16], 16): a fixed digest per URL string
url_hash(u) == IF u = "a" THEN 5 ELSE 7

HashidsAlphabet == 3
HASHIDS_MIN_LENGTH == 2

RECURSIVE ToDigits(_)
ToDigits(n) ==
    IF n < HashidsAlphabet THEN <<n>>
    ELSE Append(ToDigits(n \div HashidsAlphabet), n % HashidsAlphabet)

RECURSIVE PadLeft(_)
PadLeft(s) == IF Len(s) >= HASHIDS_MIN_LENGTH THEN s ELSE PadLeft(<<0>> \o s)

\* Hashids.encode: an injective integer-to-string encoding of at least min_length symbols
Hashids_encode(n) == PadLeft(ToDigits(n))

\* a generator that salts the digest with the clock
GenerateShortCodeSalted(u) == Hashids_encode(url_hash(u) + now)

_generate_short_code(u) == Hashids_encode(url_hash(u))

\* the codes a client may ask for: every generated one and one that is never generated
Codes == {_generate_short_code(u) : u \in URLs \ {"bad"}} \cup {<<2, 2, 2, 2>>}

----------------------------------------------------------------------------
(* models.py ShortenedURL *)

\* a record that never expires
IsExpiredNever(r, t) == FALSE

\* ShortenedURL.is_expired at time t
is_expired(r, t) == IF r.expires_at = NULL THEN FALSE ELSE t > r.expires_at

is_available(r, t) == r.is_active /\ ~is_expired(r, t)

\* ShortenedURL.clean: the errors it raises at time t
clean(r, t) ==
    IF r.expires_at # NULL /\ r.expires_at < t THEN {"expires_at"} ELSE {}

\* Model.validate_unique on short_code (unique=True), the instance itself excluded
validate_unique(r) ==
    IF \E s \in db : s.short_code = r.short_code /\ s.id # r.id
    THEN {"short_code"} ELSE {}

\* Model.full_clean as called by ShortenedURL.save
full_clean(r, t) == clean(r, t) \cup validate_unique(r)

\* a version of the counter update that forgets the timestamp
IncrementCountOnly(r, t) == [r EXCEPT !.click_count = @ + 1]

\* a version of the counter update that forgets to add
IncrementForgotten(r, t) == [r EXCEPT !.last_accessed_at = t]

\* ShortenedURL.increment_click_count, the in-memory part
increment(r, t) == [r EXCEPT !.click_count = @ + 1, !.last_accessed_at = t]

\* the row a constructor call ShortenedURL(...) makes, with the field defaults
NewRow(u, code, m, exp) ==
    [ id |-> 0, original_url |-> u, short_code |-> code,
      title |-> m.title, description |-> m.description,
      created_by_ip |-> m.created_by_ip,
      created_at |-> NULL, updated_at |-> NULL, expires_at |-> exp,
      is_active |-> TRUE, click_count |-> 0, last_accessed_at |-> NULL ]

----------------------------------------------------------------------------
(* Queries *)

RowsWithCode(c) == {r \in db : r.short_code = c}

\* ShortenedURL.objects.get(short_code=c); NoRow stands for DoesNotExist
objects_get(c) ==
    IF RowsWithCode(c) = {} THEN NoRow ELSE CHOOSE r \in RowsWithCode(c) : TRUE

\* a lookup that never finds anything
FindNothing(u) == NoRow

\* filter(original_url=u, is_active=True).first() under ordering -created_at
_find_existing_url(u) ==
    LET S == {r \in db : r.original_url = u /\ r.is_active}
    IN IF S = {} THEN NoRow
       ELSE CHOOSE r \in S : \A s \in S :
                \/ s.created_at < r.created_at
                \/ (s.created_at = r.created_at /\ s.id <= r.id)

----------------------------------------------------------------------------
(* Exception handling and HTTP answers: services.py, views.py, serializers.py *)

\* a table without the unique index
UniqueIndexAbsent(row) == FALSE

\* short_code unique=True: the INSERT of `row` violates the unique index
unique_index_violated(row) == RowsWithCode(row.short_code) # {}

\* an except clause that lets database errors through
ExceptValidationOnly(e) == IF e = "ValidationError" THEN "URLShortenerError" ELSE e

\* shorten_url, lines 90-91: except Exception -> raise URLShortenerError
shorten_url_except(e) == "URLShortenerError"

\* an except clause that passes nothing
ExceptNothing(e) == e

\* track_click, lines 191-193: except ShortenedURL.DoesNotExist: pass
track_click_except(e) == IF e = "DoesNotExist" THEN "ok" ELSE e

\* a view that tracks every request
TrackAlways(return_info) == TRUE

\* RedirectURLView.get, line 250: track_click=not return_info
track_click_flag(return_info) == ~return_info

\* CreateShortenedURLSerializer: URL format and validate_expires_at
serializer_is_valid(u, exp, t) == validators_url(u) /\ (exp = NULL \/ exp > t)

\* CreateShortenedURLView.post: the status for the outcome of shorten_url
CreateShortenedURLView_status(outcome) ==
    IF outcome = "ok" THEN 201
    ELSE IF outcome = "URLShortenerError" THEN 400
    ELSE 500

\* RedirectURLView.get: the status for the outcome of the service calls
RedirectURLView_status(outcome, return_info) ==
    IF outcome = "ok" THEN (IF return_info THEN 200 ELSE 302)
    ELSE IF outcome = "URLNotFoundError" THEN 404
    ELSE IF outcome = "URLExpiredError" THEN 410
    ELSE 500

----------------------------------------------------------------------------
(* Requests *)

Idle ==
    [ pc |-> "idle", url |-> "", code |-> <<>>, expires_at |-> NULL,
      meta |-> Meta("p1"),
      track |-> FALSE, inst |-> NoRow,
      http |-> FALSE,    \* the call is made by a view
      t0 |-> 0,          \* history: the time the call started
      read |-> NoRow,    \* history: the row as objects.get returned it
      raced |-> FALSE ]  \* history: a concurrent creator inserted this URL meanwhile

\* no call ended in the last step
NoResponse ==
    [ op |-> "none", url |-> "", code |-> <<>>, expires_at |-> NULL,
      track |-> FALSE, t0 |-> 0,
      outcome |-> "none", cause |-> {}, ret |-> NoRet, status |-> 0 ]

Init ==
    /\ db = {}
    /\ url_clicks = [i \in 1 .. MaxRows |-> 0]
    /\ last_id = 0
    /\ now = 0
    /\ proc = [p \in Procs |-> Idle]
    /\ response = NoResponse

\* the fields of a row that the response dictionaries carry
Dict(r) ==
    IF r = NoRow THEN NoRet
    ELSE [ short_code |-> r.short_code, original_url |-> r.original_url,
           title |-> r.title, click_count |-> r.click_count ]

\* a stats dictionary that reports every record as active and unexpired
StatsDictAvailable(r, t) ==
    [ short_code |-> r.short_code, original_url |-> r.original_url,
      title |-> r.title, click_count |-> r.click_count,
      last_accessed_at |-> r.last_accessed_at, expires_at |-> r.expires_at,
      is_active |-> TRUE, is_expired |-> FALSE ]

\* the dictionary get_url_stats returns at time t
StatsDict(r, t) ==
    [ short_code |-> r.short_code, original_url |-> r.original_url,
      title |-> r.title, click_count |-> r.click_count,
      last_accessed_at |-> r.last_accessed_at, expires_at |-> r.expires_at,
      is_active |-> r.is_active, is_expired |-> is_expired(r, t) ]

\* the status the view answers when the service call ends, 0 when no view
\* answers at this point (a direct call, or a redirect that goes on to track_click)
Status(op, call, outcome) ==
    IF ~call.http THEN 0
    ELSE IF op = "shorten_url" THEN CreateShortenedURLView_status(outcome)
    ELSE IF op = "get_original_url" /\ outcome = "ok" /\ call.track THEN 0
    ELSE RedirectURLView_status(outcome, ~call.track)

\* a call returns the dictionary d or raises: `outcome` is "ok" or the exception class
ReturnDict(op, call, outcome, cause, d) ==
    response' = [ op |-> op, url |-> call.url, code |-> call.code,
                  expires_at |-> call.expires_at,
                  track |-> call.track, t0 |-> call.t0,
                  outcome |-> outcome, cause |-> cause, ret |-> d,
                  status |-> Status(op, call, outcome) ]

Return(op, call, outcome, cause, r) == ReturnDict(op, call, outcome, cause, Dict(r))

\* CreateShortenedURLView.post, lines 130-139: the serializer turns the request down
post_invalid(p, u, exp) ==
    /\ proc[p].pc = "idle"
    /\ ~serializer_is_valid(u, exp, now)
    /\ response' = [NoResponse EXCEPT !.op = "POST", !.outcome = "invalid",
                                      !.status = 400]
    /\ UNCHANGED <<db, url_clicks, last_id, now, proc>>

\* shorten_url, lines 66-73: URL validation and the dedupe lookup.  The view makes
\* the calls whose arguments its serializer accepts; the calls with other
\* arguments are made on the service directly
shorten_url_check(p, u, exp) ==
    /\ proc[p].pc = "idle"
    /\ LET call == [Idle EXCEPT !.url = u, !.expires_at = exp, !.meta = Meta(p),
                                !.http = serializer_is_valid(u, exp, now),
                                !.t0 = now]
           existing_url == _find_existing_url(u)
       IN IF ~validators_url(u)
          THEN /\ Return("shorten_url", call, "URLShortenerError", {"original_url"}, NoRow)
               /\ proc' = proc
          ELSE IF existing_url # NoRow /\ is_available(existing_url, now)
          THEN /\ Return("shorten_url", call, "ok", {}, existing_url)
               /\ proc' = proc
          ELSE /\ proc' = [proc EXCEPT ![p] = [call EXCEPT !.pc = "clean"]]
               /\ response' = NoResponse
    /\ UNCHANGED <<db, url_clicks, last_id, now>>

\* shorten_url, lines 77-86: code generation, constructor, full_clean of save()
shorten_url_clean(p) ==
    /\ proc[p].pc = "clean"
    /\ LET me == proc[p]
           short_code == _generate_short_code(me.url)
           shortened_url == NewRow(me.url, short_code, me.meta, me.expires_at)
           errors == full_clean(shortened_url, now)
       IN IF errors # {}
          THEN /\ Return("shorten_url", me, shorten_url_except("ValidationError"),
                         errors, NoRow)
               /\ proc' = [proc EXCEPT ![p] = Idle]
          ELSE /\ proc' = [proc EXCEPT ![p] =
                        [me EXCEPT !.pc = "insert", !.inst = shortened_url]]
               /\ response' = NoResponse
    /\ UNCHANGED <<db, url_clicks, last_id, now>>

\* the creators of the same URL that are past the dedupe check when q inserts its row
Overtaken(q) ==
    {p \in Procs \ {q} : proc[p].pc \in {"clean", "insert"} /\ proc[p].url = proc[q].url}

\* shorten_url, lines 86-91: the INSERT of save(), under the unique index of short_code
shorten_url_insert(p) ==
    /\ proc[p].pc = "insert"
    /\ last_id < MaxRows
    /\ LET me == proc[p]
           row == [me.inst EXCEPT !.id = last_id + 1,
                                  !.created_at = now, !.updated_at = now]
       IN IF unique_index_violated(row)
          THEN /\ Return("shorten_url", me, shorten_url_except("IntegrityError"),
                         {"IntegrityError"}, NoRow)
               /\ proc' = [proc EXCEPT ![p] = Idle]
               /\ db' = db
               /\ last_id' = last_id
          ELSE /\ db' = db \cup {row}
               /\ last_id' = last_id + 1
               /\ Return("shorten_url", me, "ok", {}, row)
               /\ proc' = [q \in Procs |->
                            IF q = p THEN Idle
                            ELSE IF q \in Overtaken(p)
                            THEN [proc[q] EXCEPT !.raced = TRUE]
                            ELSE proc[q]]
    /\ UNCHANGED <<url_clicks, now>>

\* get_original_url, lines 108-118 (and the return when track_click is false),
\* called by RedirectURLView.get
get_original_url_get(p, c, track) ==
    /\ proc[p].pc = "idle"
    /\ LET call == [Idle EXCEPT !.code = c, !.track = track, !.http = TRUE, !.t0 = now]
           shortened_url == objects_get(c)
       IN IF shortened_url = NoRow
          THEN /\ Return("get_original_url", call, "URLNotFoundError", {"DoesNotExist"}, NoRow)
               /\ proc' = proc
          ELSE IF ~shortened_url.is_active
          THEN /\ Return("get_original_url", call, "URLNotFoundError", {"is_active"}, NoRow)
               /\ proc' = proc
          ELSE IF is_expired(shortened_url, now)
          THEN /\ Return("get_original_url", call, "URLExpiredError", {}, NoRow)
               /\ proc' = proc
          ELSE IF ~track
          THEN /\ Return("get_original_url", call, "ok", {}, shortened_url)
               /\ proc' = proc
          ELSE /\ shortened_url.click_count < MaxClicks
               /\ url_clicks[shortened_url.id] < MaxClicks
               /\ proc' = [proc EXCEPT ![p] =
                       [call EXCEPT !.pc = "increment", !.inst = shortened_url,
                                    !.read = shortened_url]]
               /\ response' = NoResponse
    /\ UNCHANGED <<db, url_clicks, last_id, now>>

\* RedirectURLView.get, lines 242-251: the request with or without ?info=true
RedirectURLView_get(p, c, return_info) ==
    get_original_url_get(p, c, track_click_flag(return_info))

\* increment_click_count, lines 141-142: the counter and the timestamp of the instance
increment_click_count(p) ==
    /\ proc[p].pc = "increment"
    /\ proc' = [proc EXCEPT ![p].pc = "save", ![p].inst = increment(@, now)]
    /\ response' = NoResponse
    /\ UNCHANGED <<db, url_clicks, last_id, now>>

\* an UPDATE that writes every field of the instance
UpdateAllFields(inst) == {IF r.id = inst.id THEN inst ELSE r : r \in db}

\* the UPDATE of save(update_fields=['click_count', 'last_accessed_at'])
UpdateClickFields(inst) ==
    {IF r.id = inst.id
     THEN [r EXCEPT !.click_count = inst.click_count,
                    !.last_accessed_at = inst.last_accessed_at]
     ELSE r : r \in db}

\* increment_click_count, line 143: save() = full_clean, then the UPDATE, which
\* raises DatabaseError when it changes no row; the view goes on to track_click
save_click(p) ==
    /\ proc[p].pc = "save"
    /\ LET me == proc[p]
           errors == full_clean(me.inst, now)
       IN IF errors # {}
          THEN /\ Return("get_original_url", me, "ValidationError", errors, NoRow)
               /\ db' = db
               /\ proc' = [proc EXCEPT ![p] = Idle]
          ELSE IF \A r \in db : r.id # me.inst.id
          THEN /\ Return("get_original_url", me, "DatabaseError", {"update_fields"}, NoRow)
               /\ db' = db
               /\ proc' = [proc EXCEPT ![p] = Idle]
          ELSE /\ db' = UpdateClickFields(me.inst)
               /\ Return("get_original_url", me, "ok", {}, me.inst)
               /\ proc' = [proc EXCEPT ![p] =
                       [Idle EXCEPT !.pc = "track_click", !.code = me.code,
                                    !.track = me.track, !.http = me.http]]
    /\ UNCHANGED <<url_clicks, last_id, now>>

\* get_url_stats: the row as stored, whatever is_active and expires_at are
get_url_stats(p, c) ==
    /\ proc[p].pc = "idle"
    /\ LET call == [Idle EXCEPT !.code = c, !.t0 = now]
           shortened_url == objects_get(c)
       IN IF shortened_url = NoRow
          THEN Return("get_url_stats", call, "URLNotFoundError", {"DoesNotExist"}, NoRow)
          ELSE ReturnDict("get_url_stats", call, "ok", {}, StatsDict(shortened_url, now))
    /\ UNCHANGED <<db, url_clicks, last_id, now, proc>>

\* track_click, line 182: the lookup of the parent row, by the call `call` of p
track_click_get(p, call) ==
    LET shortened_url == objects_get(call.code)
    IN /\ IF shortened_url = NoRow
          THEN /\ Return("track_click", call, track_click_except("DoesNotExist"),
                         {"DoesNotExist"}, NoRow)
               /\ proc' = [proc EXCEPT ![p] = Idle]
          ELSE /\ proc' = [proc EXCEPT ![p] =
                       [call EXCEPT !.pc = "create_click",
                                    !.inst = [id |-> shortened_url.id]]]
               /\ response' = NoResponse
       /\ UNCHANGED <<db, url_clicks, last_id, now>>

\* track_click called on the service directly
track_click(p, c) ==
    /\ proc[p].pc = "idle"
    /\ \A i \in 1 .. MaxRows : url_clicks[i] < MaxClickRows
    /\ track_click_get(p, [Idle EXCEPT !.code = c, !.t0 = now])

\* RedirectURLView.get, lines 254-260: track_click after a tracked resolution
view_track_click(p) ==
    /\ proc[p].pc = "track_click"
    /\ track_click_get(p, proc[p])

\* track_click, lines 184-189: the INSERT into url_clicks, under the foreign key
URLClick_create(p) ==
    /\ proc[p].pc = "create_click"
    /\ LET me == proc[p]
       IN IF \A r \in db : r.id # me.inst.id
          THEN /\ Return("track_click", me, track_click_except("IntegrityError"),
                         {"shortened_url_id"}, NoRow)
               /\ url_clicks' = url_clicks
          ELSE /\ Return("track_click", me, "ok", {}, NoRow)
               /\ url_clicks' = [url_clicks EXCEPT ![me.inst.id] = @ + 1]
    /\ proc' = [proc EXCEPT ![p] = Idle]
    /\ UNCHANGED <<db, last_id, now>>

\* the administrator edits is_active of a row; the admin form saves through save()
admin_set_active(r, b) ==
    /\ r \in db
    /\ r.is_active # b
    /\ full_clean(r, now) = {}
    /\ db' = (db \ {r}) \cup {[r EXCEPT !.is_active = b, !.updated_at = now]}
    /\ response' = NoResponse
    /\ UNCHANGED <<url_clicks, last_id, now, proc>>

\* the administrator deletes a row; its url_clicks rows go with it (on_delete=CASCADE)
admin_delete(r) ==
    /\ r \in db
    /\ db' = db \ {r}
    /\ url_clicks' = [url_clicks EXCEPT ![r.id] = 0]
    /\ response' = NoResponse
    /\ UNCHANGED <<last_id, now, proc>>

Tick ==
    /\ now < MaxTime
    /\ now' = now + 1
    /\ response' = NoResponse
    /\ UNCHANGED <<db, url_clicks, last_id, proc>>

Next ==
    \/ \E p \in Procs, u \in URLs, exp \in Times \cup {NULL} : post_invalid(p, u, exp)
    \/ \E p \in Procs, u \in URLs, exp \in Times \cup {NULL} :
            shorten_url_check(p, u, exp)
    \/ \E p \in Procs : shorten_url_clean(p)
    \/ \E p \in Procs : shorten_url_insert(p)
    \/ \E p \in Procs, c \in Codes, return_info \in BOOLEAN :
            RedirectURLView_get(p, c, return_info)
    \/ \E p \in Procs : increment_click_count(p)
    \/ \E p \in Procs : save_click(p)
    \/ \E p \in Procs : view_track_click(p)
    \/ \E p \in Procs : URLClick_create(p)
    \/ \E p \in Procs, c \in Codes : get_url_stats(p, c)
    \/ \E p \in Procs, c \in Codes : track_click(p, c)
    \/ \E r \in db, b \in BOOLEAN : admin_set_active(r, b)
    \/ \E r \in db : admin_delete(r)
    \/ Tick

Spec == Init /\ [][Next]_vars

----------------------------------------------------------------------------
(* Properties *)

\* the rows of u that are active and unexpired at time t
AvailableRows(u, t) == {r \in db : r.original_url = u /\ is_available(r, t)}

\* p's call ends in this step, after one or more earlier steps
Ends(p) == proc[p].pc # "idle" /\ proc'[p].pc = "idle"

\* a shorten_url call of a valid URL without expiry ends in this step and no
\* concurrent creator inserted the URL while it ran
PlainCreateEnds ==
    /\ response'.op = "shorten_url"
    /\ validators_url(response'.url)
    /\ response'.expires_at = NULL
    /\ \A p \in Procs : Ends(p) => ~proc[p].raced

\* C1: round trip. From every reachable store state a create of a valid URL u
\* succeeds, and a resolve of the returned short_code that follows it directly
\* passes its checks on a record whose original_url is u.
C1_RoundTrip ==
    [][ /\ PlainCreateEnds => response'.outcome = "ok"
        /\ \A p \in Procs, track \in BOOLEAN :
              /\ response.op = "shorten_url"
              /\ response.expires_at = NULL
              /\ response.outcome = "ok"
              /\ get_original_url_get(p, response.ret.short_code, track)
              => IF track
                 THEN /\ proc'[p].pc = "increment"
                      /\ proc'[p].inst.original_url = response.url
                 ELSE /\ response'.outcome = "ok"
                      /\ response'.ret.original_url = response.url
      ]_vars

\* C2: sequential create is idempotent. A create of u while an available record
\* of u exists returns that record's short_code without error, whatever the new
\* title, description, expires_at and client ip are, and leaves the table as it is.
C2_IdempotentCreate ==
    [][ /\ \A p \in Procs :
              proc[p].pc = "idle" /\ proc'[p].pc = "clean"
              => AvailableRows(proc'[p].url, now) = {}
        /\ \A r \in AvailableRows(response'.url, now) :
              /\ response'.op = "shorten_url"
              /\ \A p \in Procs : ~Ends(p)
              => /\ response'.outcome = "ok"
                 /\ response'.ret.short_code = r.short_code
                 /\ db' = db
                 /\ proc' = proc
      ]_vars

\* a create has just returned an existing record that has been resolved before
\* and whose stored expires_at is not the one the call asked for
C2_Witness ==
    /\ response.op = "shorten_url"
    /\ response.outcome = "ok"
    /\ \E r \in db : /\ r.short_code = response.ret.short_code
                     /\ r.expires_at # response.expires_at
                     /\ r.click_count > 0

\* C3: the outcome of resolve is decided by the record's state. NotFound exactly
\* when no record has the code or the record is inactive, Expired exactly when
\* the record is active and the clock is past expires_at, success in every other
\* case (the record is not deleted while the call runs).
C3_ResolveOutcome ==
    [][ /\ \A p \in Procs, c \in Codes, track \in BOOLEAN :
              get_original_url_get(p, c, track)
              => LET r == objects_get(c)
                     absent == r = NoRow \/ ~r.is_active
                     expired == ~absent /\ is_expired(r, now)
                 IN /\ absent <=> (response'.outcome = "URLNotFoundError")
                    /\ expired <=> (response'.outcome = "URLExpiredError")
        /\ (response'.op = "get_original_url"
              /\ \E r \in db : r.short_code = response'.code)
              => response'.outcome \in {"ok", "URLNotFoundError", "URLExpiredError"}
      ]_vars

\* C4: no lost updates. Every tracked resolution that succeeds leaves the stored
\* click_count one greater than it was just before its write, so that N of them,
\* however interleaved, add N.
C4_NoLostUpdate ==
    [][ \A p \in Procs :
          save_click(p) /\ response'.outcome = "ok"
          => \E r \in db, w \in db' :
                /\ r.id = proc[p].inst.id
                /\ w.id = r.id
                /\ w.click_count = r.click_count + 1
      ]_vars

\* C5: two creators of the same URL that both pass the dedupe check before either
\* inserts both return the same short_code without error.
C5_RaceHandled ==
    [][ \A p \in Procs :
          Ends(p) /\ proc[p].raced
          => /\ response'.outcome = "ok"
             /\ response'.ret.short_code = _generate_short_code(proc[p].url)
      ]_vars

\* C6: a create of a valid URL u that finds no available record of u (none, an
\* expired one or a deactivated one) persists a new record, returns it, and an
\* available record of u exists afterwards.
C6_CreateWhenUnavailable ==
    [][ \A p \in Procs :
          /\ Ends(p)
          /\ PlainCreateEnds
          => /\ response'.outcome = "ok"
             /\ Cardinality(db') = Cardinality(db) + 1
             /\ \E w \in db' : w.original_url = proc[p].url /\ is_available(w, now')
      ]_vars

\* C7: a create whose expires_at is not strictly after the time of the call
\* fails with URLShortenerError, returns no record and stores no row, whether or
\* not a record of the URL exists.
C7_PastExpiryRejected ==
    [][ /\ response'.op = "shorten_url"
        /\ response'.expires_at # NULL
        /\ response'.expires_at <= response'.t0
        => /\ response'.outcome = "URLShortenerError"
           /\ response'.ret = NoRet
           /\ db' = db
      ]_vars

\* C8: a tracked resolve that succeeds and whose record no other request wrote
\* since it was read (every sequential call) adds exactly 1 to the stored
\* click_count and stores a last_accessed_at not earlier than the start of the call.
C8_TrackedResolve ==
    [][ \A p \in Procs :
          /\ save_click(p)
          /\ response'.outcome = "ok"
          /\ proc[p].read \in db
          => \E r \in db, w \in db' :
                /\ r.id = proc[p].inst.id
                /\ w.id = r.id
                /\ w.click_count = r.click_count + 1
                /\ w.last_accessed_at # NULL
                /\ w.last_accessed_at >= proc[p].t0
                /\ db' = (db \ {r}) \cup {w}
      ]_vars

\* a tracked resolve has just returned and the stored counter is positive
C8_Witness ==
    /\ response.op = "get_original_url"
    /\ response.track
    /\ response.outcome = "ok"
    /\ \E r \in db : /\ r.short_code = response.code
                     /\ r.click_count = response.ret.click_count
                     /\ r.click_count > 0
                     /\ r.last_accessed_at >= response.t0

\* C9: click_count is 0 in a new record, never negative, and never decreases
\* from one state to the next.
C9_ClickCountMonotone ==
    [][ \A w \in db' :
          /\ w.click_count >= 0
          /\ (\A r \in db : r.id # w.id) => w.click_count = 0
          /\ \A r \in db : r.id = w.id => w.click_count >= r.click_count
      ]_vars

\* C10: at most one record of a given original_url is active and unexpired.
C10_OneAvailablePerURL ==
    \A u \in URLs : Cardinality(AvailableRows(u, now)) <= 1

\* a second creator of a URL has just been turned away by the unique short_code
\* while the record the first one inserted is available
C10_Witness ==
    /\ response.op = "shorten_url"
    /\ response.outcome = "URLShortenerError"
    /\ "IntegrityError" \in response.cause
    /\ AvailableRows(response.url, now) # {}

\* C11: no two stored records have the same short_code, under any interleaving
\* of creates, and a create whose INSERT meets a row with its short_code stores
\* nothing.
C11_UniqueShortCode ==
    [][ /\ \A r, s \in db' : r.short_code = s.short_code => r = s
        /\ \A p \in Procs :
              /\ shorten_url_insert(p)
              /\ RowsWithCode(proc[p].inst.short_code) # {}
              => /\ db' = db
                 /\ response'.outcome = "URLShortenerError"
      ]_vars

\* a creator that was overtaken between its validation and its INSERT has just
\* been turned away, and the table holds one row with the code
C11_Witness ==
    /\ response.op = "shorten_url"
    /\ response.cause = {"IntegrityError"}
    /\ Cardinality(RowsWithCode(_generate_short_code(response.url))) = 1

\* C12: get_url_stats succeeds for every stored record, active or not, expired or
\* not: it reports is_active as stored and is_expired true exactly when
\* expires_at is set and the clock is past it; it raises URLNotFoundError only
\* when no record has the code.
C12_StatsAlways ==
    [][ response'.op = "get_url_stats"
        => IF \A r \in db : r.short_code # response'.code
           THEN response'.outcome = "URLNotFoundError"
           ELSE \E r \in db :
                  /\ r.short_code = response'.code
                  /\ response'.outcome = "ok"
                  /\ response'.ret.is_active = r.is_active
                  /\ response'.ret.is_expired = (r.expires_at # NULL /\ now > r.expires_at)
                  /\ response'.ret.click_count = r.click_count
      ]_vars

\* get_url_stats has just reported a record that is deactivated and expired, on
\* which a resolve fails
C12_Witness ==
    /\ response.op = "get_url_stats"
    /\ response.outcome = "ok"
    /\ response.ret.is_expired
    /\ ~response.ret.is_active
    /\ \E r \in db : /\ r.short_code = response.code
                     /\ ~is_available(r, now)

\* C13: track_click with a short_code that matches no record returns normally,
\* adds no url_clicks row and changes no field of any record.
C13_TrackUnknownCode ==
    [][ \A p \in Procs, c \in Codes :
          /\ RowsWithCode(c) = {}
          /\ \/ track_click(p, c)
             \/ proc[p].code = c /\ view_track_click(p)
          => /\ response'.op = "track_click"
             /\ response'.outcome = "ok"
             /\ db' = db
             /\ url_clicks' = url_clicks
             /\ proc'[p] = Idle
      ]_vars

\* track_click has just returned for a code that no row of a non-empty table has
C13_Witness ==
    /\ response.op = "track_click"
    /\ response.outcome = "ok"
    /\ response.cause = {"DoesNotExist"}
    /\ RowsWithCode(response.code) = {}
    /\ db # {}

\* C14: every failure of click-detail recording during a GET redirect is
\* swallowed: track_click raises nothing, whether the code vanished or the INSERT
\* into url_clicks failed, and the redirect answers 302.
C14_TrackFailureSwallowed ==
    [][ \A p \in Procs :
          /\ proc[p].http
          /\ proc[p].pc \in {"track_click", "create_click"}
          /\ proc'[p].pc = "idle"
          => /\ response'.op = "track_click"
             /\ response'.outcome = "ok"
             /\ response'.status = 302
      ]_vars

\* C15: every failure of shorten_url while it persists the new record reaches
\* the caller as URLShortenerError, and the tables and the id sequence are then
\* as they were before the failing step.
C15_CreateFailureWrapped ==
    [][ \A p \in Procs :
          /\ proc[p].pc \in {"clean", "insert"}
          /\ proc'[p].pc = "idle"
          /\ response'.outcome # "ok"
          => /\ response'.op = "shorten_url"
             /\ response'.outcome = "URLShortenerError"
             /\ response'.ret = NoRet
             /\ db' = db
             /\ url_clicks' = url_clicks
             /\ last_id' = last_id
      ]_vars

\* a create has just failed in the validation that save() runs on the new record,
\* with the table holding what it held when the call started
C15_Witness ==
    /\ response.op = "shorten_url"
    /\ response.outcome = "URLShortenerError"
    /\ "expires_at" \in response.cause
    /\ response.expires_at < now
    /\ \A r \in db : r.created_at <= response.t0

\* C16: when the persistence step of a POST create fails unexpectedly, for
\* instance on the uniqueness of short_code, the answer has status 500.
C16_PersistenceFailure500 ==
    [][ /\ response'.op = "shorten_url"
        /\ response'.status # 0
        /\ response'.cause \cap {"short_code", "IntegrityError"} # {}
        => response'.status = 500
      ]_vars

\* C17: a create that fails validation (malformed URL, or expires_at not in the
\* future) fails in its first step, before the dedupe lookup and before any
\* INSERT of that call.
C17_ValidationBeforeStore ==
    [][ /\ response'.op = "shorten_url"
        /\ response'.cause \cap {"original_url", "expires_at"} # {}
        => /\ proc' = proc
           /\ db' = db
      ]_vars

\* C18: the write of a tracked resolve changes click_count and last_accessed_at
\* of its record and nothing else: every other field, and every other row, keeps
\* the value stored just before the write, also when the administrator changed
\* it after the resolve read the record.
C18_PartialUpdate ==
    [][ \A p \in Procs :
          save_click(p)
          => /\ \A r \in db : \E w \in db' :
                   /\ w.id = r.id
                   /\ [w EXCEPT !.click_count = r.click_count,
                                !.last_accessed_at = r.last_accessed_at] = r
                   /\ r.id # proc[p].inst.id => w = r
             /\ Cardinality(db') = Cardinality(db)
      ]_vars

\* a tracked resolve has just written its counter to a record that the
\* administrator deactivated after the resolve had read it, and the record is
\* still deactivated
C18_Witness ==
    /\ response.op = "get_original_url"
    /\ response.track
    /\ response.outcome = "ok"
    /\ \E r \in db : /\ r.short_code = response.code
                     /\ ~r.is_active
                     /\ r.click_count = response.ret.click_count
                     /\ r.last_accessed_at # NULL
                     /\ r.updated_at >= response.t0

\* C19: a GET redirect changes click_count, last_accessed_at or the url_clicks
\* rows only for a record that was active and unexpired when the request checked
\* it.  A request answered 404 or 410 and a request with info=true end in the
\* step of their check and leave both tables unchanged.
C19_RedirectFrame ==
    [][ /\ response'.status \in {404, 410}
           => /\ db' = db
              /\ url_clicks' = url_clicks
              /\ proc' = proc
        /\ \A p \in Procs :
              /\ proc[p].pc = "idle"
              /\ response'.op = "get_original_url" \/ proc'[p].pc = "increment"
              => \A c \in Codes :
                    RedirectURLView_get(p, c, TRUE)
                    => /\ db' = db
                       /\ url_clicks' = url_clicks
                       /\ proc' = proc
        /\ \A p \in Procs :
              /\ proc[p].pc = "save" /\ db' # db
                 => /\ proc[p].track
                    /\ is_available(proc[p].read, proc[p].t0)
              /\ proc[p].http /\ proc[p].pc = "create_click"
                 => proc[p].track
              /\ proc[p].pc # "track_click" /\ proc'[p].pc = "track_click"
                 => /\ proc[p].pc = "save"
                    /\ response'.outcome = "ok"
      ]_vars

\* a request has just been answered 410 for a record that an earlier request
\* had resolved and counted
C19_Witness ==
    /\ response.op = "get_original_url"
    /\ response.status = 410
    /\ \E r \in db : /\ r.short_code = response.code
                     /\ r.click_count > 0
                     /\ r.last_accessed_at # NULL

\* C20: get_original_url ends only in success, URLNotFoundError or
\* URLExpiredError, whatever the record's state and however the clock advances
\* during the call, the save of the click count included (the record is not
\* deleted while the call runs).
C20_ResolveErrorsClosed ==
    [][ \A p \in Procs :
          /\ proc[p].pc = "save"
          /\ proc'[p].pc # "save"
          /\ \E r \in db : r.id = proc[p].inst.id
          => /\ response'.op = "get_original_url"
             /\ response'.outcome \in {"ok", "URLNotFoundError", "URLExpiredError"}
      ]_vars

\* the administrator acts in this step
AdminStep ==
    \E r \in db : admin_delete(r) \/ \E b \in BOOLEAN : admin_set_active(r, b)

\* C21: expiry is not stored and is permanent.  No step of create, resolve,
\* track_click or get_url_stats removes a record or changes its expires_at or
\* is_active; the clock never goes back, so a record that is expired stays
\* expired; and a resolve succeeds only on a record whose expires_at is unset
\* or not yet passed.  Hence no resolve succeeds after one failed as expired.
C21_ExpiryPermanent ==
    [][ /\ db' # db /\ ~AdminStep
           => \A r \in db : \E w \in db' :
                 /\ w.id = r.id
                 /\ w.expires_at = r.expires_at
                 /\ w.is_active = r.is_active
        /\ now' >= now
        /\ \A r \in db, w \in db' :
              /\ w.id = r.id
              /\ r.expires_at # NULL /\ now > r.expires_at
              => w.expires_at # NULL /\ now' > w.expires_at
        /\ response'.op = "get_original_url" /\ response'.outcome = "ok"
           => \E r \in db :
                 /\ r.short_code = response'.code
                 /\ r.expires_at = NULL \/ now <= r.expires_at
      ]_vars

\* a resolve has just failed as expired on a record that was created unexpired
\* and whose expiry the clock has passed since
C21_Witness ==
    /\ response.op = "get_original_url"
    /\ response.outcome = "URLExpiredError"
    /\ \E r \in db : /\ r.short_code = response.code
                     /\ r.is_active
                     /\ r.created_at <= r.expires_at
                     /\ r.expires_at < now

\* the redirect requests that have counted a click of r and not yet inserted
\* its url_clicks row
PendingClickRows(r) ==
    {p \in Procs : /\ proc[p].http
                   /\ proc[p].pc \in {"track_click", "create_click"}
                   /\ proc[p].code = r.short_code}

\* every record has as many url_clicks rows, those about to be inserted
\* included, as its click_count says
ClicksBalanced ==
    \A r \in db : url_clicks[r.id] + Cardinality(PendingClickRows(r)) = r.click_count

\* C22: under POST creates and GET redirects alone, however interleaved, the
\* url_clicks rows of a record are as many as its click_count whenever no
\* request is in flight.  Step by step: a step that is neither the
\* administrator's nor a direct track_click call keeps rows and counter balanced.
C22_ClickRowsMatchCount ==
    [][ /\ ClicksBalanced
        /\ ~AdminStep
        /\ \A p \in Procs : proc[p].pc = "create_click" => proc[p].http
        => ClicksBalanced'
      ]_vars

\* C23: last_accessed_at of a record is unset exactly when its click_count is 0:
\* null from creation until the first tracked resolution that succeeds, set
\* from then on.
C23_LastAccessedIffCounted ==
    \A r \in db : (r.last_accessed_at = NULL) <=> (r.click_count = 0)

\* a record has been resolved and counted twice, the last time after the clock
\* moved on from its creation
C23_Witness ==
    \E r \in db : /\ r.click_count = MaxClicks
                  /\ r.last_accessed_at # NULL
                  /\ r.last_accessed_at > r.created_at

\* C24: every mutation of a record refreshes updated_at: after a tracked
\* resolve that succeeds, the stored updated_at is the time of that resolve's
\* write.
C24_UpdatedAtRefreshed ==
    [][ \A p \in Procs :
          /\ proc[p].pc = "save"
          /\ proc'[p].pc = "track_click"
          /\ response'.outcome = "ok"
          => \E w \in db' : /\ w.id = proc[p].inst.id
                            /\ w.updated_at = now
      ]_vars

====
